---- MODULE Spec2Model ----
(***************************************************************************)
(* PaperMind front end: the systematic-review page (SystematicReviewPage)  *)
(* as a state machine.  The React state of the page, the promises in       *)
(* flight, the poll interval and the 120 s timer of every generation job   *)
(* are the state; every handler, timer callback and promise continuation   *)
(* is one action.                                                          *)
(*                                                                         *)
(* Closures: a handler reads the state values of the render that created   *)
(* it.  generateReviewMutation.onSuccess runs with the options of the      *)
(* latest render of the page while its mutation is the observer's current  *)
(* one, so the values it (and the fetchGeneratedReview it calls, and the   *)
(* timer callbacks it schedules) read are those of the state when the      *)
(* response arrives; setState calls made inside the handler are not seen   *)
(* by it.  A mutation replaced by a later mutate() keeps the options it    *)
(* had when it was replaced.                                               *)
(***************************************************************************)
EXTENDS Integers, Sequences, FiniteSets, TLC

\* ---------------------------------------------------------------- bounds
\* number of jobs (accepted handleGenerate calls) in one page session
MaxJobs == 2
\* interval ticks that fit before the timer fires (120000 / 3000 in the code)
TicksBeforeTimeout == 1
\* user-started fetches (Retry Fetch, Load Full Content, test button) in flight
MaxUserFetches == 1

\* ------------------------------------------------------- program constants
\* fetchGeneratedReview: rawMarkdown.length > 500 makes the shown text final
FinalLength == 500
ProgressSubmitted == 10
ProgressAccepted == 30
ProgressFetching == 80
ProgressPollStep == 10
ProgressPollCap == 90
ProgressDone == 100

\* ------------------------------------------------------------ data values
JobIds == 1..MaxJobs
\* topics typed into the input; one letter stands for one word
EmptyTopic == <<>>
Topics == {EmptyTopic, <<"M", "L", " ", " ", "H">>}
\* data.preview.length of a generation response (0: no preview)
PreviewLens == {0, 400, 600}
\* reviewData.content.length of a fetch response (0: empty content)
ContentLens == {0, 400, 5000}

Whitespace == {" "}

Min(a, b) == IF a < b THEN a ELSE b

\* prev => Math.min(prev + 10, 90)
PollStep(prev) == Min(prev + ProgressPollStep, ProgressPollCap)
\* state updates queued in one handler run are applied in order: the last
\* value set is the one rendered
Batch(updates) == updates[Len(updates)]

\* String.prototype.toLowerCase on one character
LowerChar(c) ==
    CASE c = "M" -> "m"
      [] c = "L" -> "l"
      [] c = "H" -> "h"
      [] OTHER -> c

\* topic.toLowerCase()
RECURSIVE ToLowerCase(_)
ToLowerCase(s) ==
    IF s = <<>> THEN <<>> ELSE <<LowerChar(Head(s))>> \o ToLowerCase(Tail(s))

\* the variant topic.replace(/\s/g, '_'): every whitespace character becomes
\* its own '_' (runs are not collapsed); not what the page does
RECURSIVE ReplaceEachWhitespace(_)
ReplaceEachWhitespace(s) ==
    IF s = <<>> THEN <<>>
    ELSE IF Head(s) \in Whitespace
         THEN <<"_">> \o ReplaceEachWhitespace(Tail(s))
         ELSE <<Head(s)>> \o ReplaceEachWhitespace(Tail(s))

\* topic.replace(/\s+/g, '_'): every run of whitespace becomes one '_'
RECURSIVE ReplaceWhitespaceRuns(_)
ReplaceWhitespaceRuns(s) ==
    IF s = <<>> THEN <<>>
    ELSE IF Head(s) \in Whitespace
         THEN IF Len(s) > 1 /\ s[2] \in Whitespace
              THEN ReplaceWhitespaceRuns(Tail(s))
              ELSE <<"_">> \o ReplaceWhitespaceRuns(Tail(s))
         ELSE <<Head(s)>> \o ReplaceWhitespaceRuns(Tail(s))

\* topic.trim()
RECURSIVE TrimStart(_)
TrimStart(s) ==
    IF s # <<>> /\ Head(s) \in Whitespace THEN TrimStart(Tail(s)) ELSE s

RECURSIVE TrimEnd(_)
TrimEnd(s) ==
    IF s # <<>> /\ s[Len(s)] \in Whitespace
    THEN TrimEnd(SubSeq(s, 1, Len(s) - 1)) ELSE s

Trim(s) == TrimEnd(TrimStart(s))

\* String.prototype.includes
Includes(s, sub) ==
    \E i \in 0..(Len(s) - Len(sub)) : SubSeq(s, i + 1, i + Len(sub)) = sub

\* identifiers passed to api.getReview
NoId == [k |-> "none", j |-> 0, s |-> <<>>]
\* data.review_id: the opaque identifier the backend assigns to job j
ReviewIdOf(j) == [k |-> "job", j |-> j, s |-> <<>>]
\* `review_${topic.replace(/\s+/g, '_').toLowerCase()}`
TopicBasedId(t) ==
    [k |-> "topic", j |-> 0, s |-> <<"review_">> \o ToLowerCase(ReplaceWhitespaceRuns(t))]
\* 'review_machine_learning_in_healthcare'
TestId == [k |-> "topic", j |-> 0, s |-> <<"review_", "m", "l", "_", "h">>]

\* texts: where the text came from, the identifier it was fetched by, its length
NoContent == [src |-> "none", id |-> NoId, len |-> 0]
PreviewOf(j, n) == [src |-> "preview", id |-> ReviewIdOf(j), len |-> n]
ContentOf(id, n) == [src |-> "fetch", id |-> id, len |-> n]

\* the SystematicReview object: its id and sections.abstract (topic, type,
\* timeRange and statistics are only displayed)
NoReview == [id |-> NoId, abstract |-> NoContent]
MakeReview(id, text) == [id |-> id, abstract |-> text]

VARIABLES
    topic,                \* useState('')            the topic input
    review,               \* useState(null)          the SystematicReview shown
    rawMarkdown,          \* useState('')            the text shown
    isFullContentLoaded,  \* useState(false)
    generationProgress,   \* useState(0)
    isGenerating,         \* useState(false)
    reviewId,             \* useState(null)
    toast,                \* the notice shown last (useToast)
    tasks,                \* promises in flight, each with its closure
    polls,                \* per job: its setInterval, its setTimeout, their closure
    jobs,                 \* per job: history of the job (phase, how it ended, ...)
    nJobs,                \* number of jobs submitted so far
    mounted               \* the route /systematic-review renders the page

page == <<topic, review, rawMarkdown, isFullContentLoaded, generationProgress,
          isGenerating, reviewId>>
reviewVars == <<topic, review, rawMarkdown, isFullContentLoaded,
                generationProgress, isGenerating, reviewId, toast, tasks, polls,
                jobs, nJobs, mounted>>

\* the system status indicator (SystemStatus, checkBackendConnectivity)
VARIABLES
    step,                 \* where the running checkBackendConnectivity stands
    results,              \* its local results object
    probed,               \* the probes it has issued, each with its outcome
    promise,              \* the promise the last call returned to useQuery
    systemHealth,         \* useQuery's data (systemHealth)
    nChecks               \* number of calls of the query function so far

healthVars == <<step, results, probed, promise, systemHealth, nChecks>>

\* the document chat page (CAGSystem) and the backend it talks to
VARIABLES
    documents,            \* useState([])   documents.length > 0
    messages,             \* useState([])   the chat messages shown
    documentStatus,       \* useQuery data: it lists processed files
    conversationStats,    \* useQuery data: its conversation_history
    statusFetch,          \* the fetch of the document status query
    statsFetch,           \* the fetch of the conversation stats query
    uploadReq,            \* uploadDocumentsMutation
    askReq,               \* askQuestionMutation
    resetReq,             \* resetSessionMutation
    clearReq,             \* clearConversationMutation
    serverHistory,        \* backend: the conversation history of the session
    serverDocs,           \* backend: the session has processed files
    nSent,                \* number of questions sent so far
    nClears,              \* number of Clear Conversation / Reset Session clicks
    nRefreshes,           \* number of refetchInterval fetches of the stats
    nUploads,             \* number of uploads so far
    cleared               \* messages that were shown when a reset emptied the list

chatVars == <<documents, messages, documentStatus, conversationStats,
              statusFetch, statsFetch, uploadReq, askReq, resetReq, clearReq,
              serverHistory, serverDocs, nSent, nClears, nRefreshes, nUploads,
              cleared>>

\* PDFPreview: the zoom in percent (useState(1)), its step and its limits
ZoomStart == 100
ZoomStep == 20
ZoomMin == 50
ZoomMax == 300

\* the page with simulated progress: the value set on submit, the step of a
\* tick, and the value at which a tick creates the review
DemoProgressStart == 1
DemoProgressStep == 10
DemoProgressFull == 100

\* the year the clock shows at the start, and the last year considered
FirstYear == 2025
LastYear == 2026

\* ---- the other components of the application ----------------------------
\* the research stream (api.createResearchStream)
VARIABLES
    readyState,           \* the EventSource: "none", "open" or "closed"
    arrived,              \* the data of the message events dispatched so far
    delivered,            \* the arguments of the calls of onMessage so far
    closedBy              \* what closed the EventSource

streamVars == <<readyState, arrived, delivered, closedBy>>

\* the api client (the request wrappers of the api object)
VARIABLES
    calls                 \* the wrapper calls made so far, each with response and outcome

clientVars == <<calls>>

\* the statistics of a review object (review.statistics)
VARIABLES
    statistics            \* review.statistics, with the estimate its countries came from

metricsVars == <<statistics>>

\* parseReferences and the clock it reads
VARIABLES
    now,                  \* new Date().getFullYear() at this moment
    parsed                \* the calls of parseReferences so far: text and returned list

referencesVars == <<now, parsed>>

\* FileUpload and the page that hosts it (PodcastGenerator, PDFPreviewDemo)
VARIABLES
    host,                 \* the page that renders FileUpload, "none" before it mounts
    files,                \* FileUpload: useState([])  the selected files
    error,                \* FileUpload: useState(null)
    notified,             \* the argument of the last onFilesChange call, and a bit that flips at each call
    uploadedFile,         \* PodcastGenerator: uploadedFile (PDFPreviewDemo: selectedFile)
    generatedPodcasts,    \* PodcastGenerator: useState([])
    generating,           \* generatePodcastMutation: the request in flight and its file
    lastOutcome,          \* what the last generation ended with
    nGenerations,         \* number of generations started so far
    podcastNotice         \* the notice PodcastGenerator showed last (useToast)

uploadVars == <<host, files, error, notified, uploadedFile, generatedPodcasts, generating, lastOutcome, nGenerations, podcastNotice>>

\* PDFPreview
VARIABLES
    previewFile,          \* the file prop: "null", "pdf" or "other"
    pdfUrl,               \* useState(null): an object URL is set
    previewError,         \* useState(null)
    showPreview,          \* the showPreview prop, kept by the parent
    zoom                  \* useState(1), in percent

previewVars == <<previewFile, pdfUrl, previewError, showPreview, zoom>>

\* SystematicReviewPage, the variant with simulated progress
VARIABLES
    demoTopic,            \* useState('')   the topic input
    demoReview,           \* useState(null)  a mock review has been set
    demoProgress,         \* useState(0)   generationProgress of this variant
    demoPending,          \* generateReviewMutation.isPending
    demoIntervals,        \* number of setInterval timers running
    demoNotice,           \* the notice shown last (useToast)
    nDemoSubmits          \* number of submits so far

demoVars == <<demoTopic, demoReview, demoProgress, demoPending, demoIntervals, demoNotice, nDemoSubmits>>

\* ResearchAssistant with its ChatInterface, and the requests it has sent
VARIABLES
    assistantMessages,    \* useState([])   the chat messages, each with the number of its question
    assistantRequests,    \* calls of api.askQuestion in flight, each with the mount that sent it
    assistantPending,     \* askQuestionMutation.isPending, passed on as isLoading
    assistantCurrent,     \* the question of the mutation the observer follows (0: none)
    assistantMount,       \* which mount of the page is on screen
    assistantNotice,      \* the notice shown last (useToast)
    nQuestions            \* number of questions sent so far

assistantVars == <<assistantMessages, assistantRequests, assistantPending, assistantCurrent, assistantMount, assistantNotice, nQuestions>>

\* everything but the research stream
besideStream == <<reviewVars, healthVars, chatVars, clientVars, metricsVars, referencesVars, uploadVars, previewVars, demoVars, assistantVars>>

\* everything but the api client
besideClient == <<reviewVars, healthVars, chatVars, streamVars, metricsVars, referencesVars, uploadVars, previewVars, demoVars, assistantVars>>

\* everything but the statistics of a review
besideMetrics == <<reviewVars, healthVars, chatVars, streamVars, clientVars, referencesVars, uploadVars, previewVars, demoVars, assistantVars>>

\* everything but the reference parser
besideReferences == <<reviewVars, healthVars, chatVars, streamVars, clientVars, metricsVars, uploadVars, previewVars, demoVars, assistantVars>>

\* everything but the file upload and the podcast page
besideUpload == <<reviewVars, healthVars, chatVars, streamVars, clientVars, metricsVars, referencesVars, previewVars, demoVars, assistantVars>>

\* everything but the PDF preview
besidePreview == <<reviewVars, healthVars, chatVars, streamVars, clientVars, metricsVars, referencesVars, uploadVars, demoVars, assistantVars>>

\* everything but the systematic review page with simulated progress
besideDemo == <<reviewVars, healthVars, chatVars, streamVars, clientVars, metricsVars, referencesVars, uploadVars, previewVars, assistantVars>>

\* everything but the Research Assistant chat
besideAssistant == <<reviewVars, healthVars, chatVars, streamVars, clientVars, metricsVars, referencesVars, uploadVars, previewVars, demoVars>>

\* before createResearchStream is called
StreamInit ==
    /\ readyState = "none"
    /\ arrived = <<>>
    /\ delivered = <<>>
    /\ closedBy = "nothing"

\* no request has been made
ClientInit ==
    /\ calls = <<>>

\* no review object has been built (review is null)
MetricsInit ==
    /\ statistics = [built |-> FALSE, studiesReviewed |-> 0, estimate |-> 0,
                     countries |-> 0, qualityScore |-> 0]

\* no text has been parsed
ReferencesInit ==
    /\ now = FirstYear
    /\ parsed = <<>>

\* before a page with a FileUpload is opened
UploadInit ==
    /\ host = "none"
    /\ files = <<>>
    /\ error = "null"
    /\ notified = [files |-> <<>>, flip |-> FALSE]
    /\ uploadedFile = [size |-> 0, type |-> <<>>, name |-> "null"]
    /\ generatedPodcasts = <<>>
    /\ generating = [st |-> "idle", file |-> [size |-> 0, type |-> <<>>, name |-> "null"]]
    /\ lastOutcome = [kind |-> "none", status |-> "", audio |-> FALSE, message |-> <<>>]
    /\ nGenerations = 0
    /\ podcastNotice = "none"

\* PDFPreview as it mounts, without a file
PreviewInit ==
    /\ previewFile = "null"
    /\ pdfUrl = FALSE
    /\ previewError = "null"
    /\ showPreview = TRUE
    /\ zoom = ZoomStart

\* the page as it mounts
DemoInit ==
    /\ demoTopic = ""
    /\ demoReview = FALSE
    /\ demoProgress = 0
    /\ demoPending = FALSE
    /\ demoIntervals = 0
    /\ demoNotice = "none"
    /\ nDemoSubmits = 0

\* ResearchAssistant as it mounts
AssistantInit ==
    /\ assistantMessages = <<>>
    /\ assistantRequests = {}
    /\ assistantPending = FALSE
    /\ assistantCurrent = 0
    /\ assistantMount = 1
    /\ assistantNotice = "none"
    /\ nQuestions = 0

widgets == <<streamVars, clientVars, metricsVars, referencesVars, uploadVars, previewVars, demoVars, assistantVars>>

WidgetsInit ==
    /\ StreamInit
    /\ ClientInit
    /\ MetricsInit
    /\ ReferencesInit
    /\ UploadInit
    /\ PreviewInit
    /\ DemoInit
    /\ AssistantInit

\* ---- all components --------------------------------------------------------
\* the state of the components other than the systematic review page
elsewhere == <<healthVars, chatVars, widgets>>

\* the systematic review page without the notice, which useToast shares
reviewState == <<topic, review, rawMarkdown, isFullContentLoaded,
                 generationProgress, isGenerating, reviewId, tasks, polls, jobs,
                 nJobs, mounted>>

vars == <<reviewVars, healthVars, chatVars, widgets>>

NoPoll == [interval |-> FALSE, timeout |-> FALSE, ticks |-> 0,
           clProgress |-> 0, clRaw |-> NoContent, clTopic |-> EmptyTopic]
Terminal == {"complete", "failed"}
NoJob == [phase |-> "none", fallbacks |-> 0]

\* results as checkBackendConnectivity creates it
NoResults ==
    [isHealthy |-> FALSE,
     services |-> [main |-> FALSE, cag |-> FALSE, insights |-> FALSE]]

HealthInit ==
    /\ step = "idle"
    /\ results = NoResults
    /\ probed = <<>>
    /\ promise = "none"
    /\ systemHealth = NoResults      \* no data yet: systemHealth?.isHealthy || false
    /\ nChecks = 0

\* a request slot: nothing in flight, sent, or served by the backend with
\* the response on its way
NoRequest == [st |-> "idle", ok |-> FALSE, turn |-> 0, history |-> <<>>, files |-> FALSE]
Sent == [NoRequest EXCEPT !.st = "sent"]

\* useQuery issues both queries when the page mounts
ChatInit ==
    /\ documents = FALSE
    /\ messages = <<>>
    /\ documentStatus = FALSE
    /\ conversationStats = <<>>     \* undefined: no history to show
    /\ statusFetch = Sent
    /\ statsFetch = Sent
    /\ uploadReq = NoRequest
    /\ askReq = NoRequest
    /\ resetReq = NoRequest
    /\ clearReq = NoRequest
    /\ serverHistory = <<>>
    /\ serverDocs = FALSE
    /\ nSent = 0
    /\ nClears = 0
    /\ nRefreshes = 0
    /\ nUploads = 0
    /\ cleared = {}

Init ==
    /\ HealthInit
    /\ ChatInit
    /\ WidgetsInit
    /\ topic = EmptyTopic
    /\ review = NoReview
    /\ rawMarkdown = NoContent
    /\ isFullContentLoaded = FALSE
    /\ generationProgress = 0
    /\ isGenerating = FALSE
    /\ reviewId = NoId
    /\ toast = "none"
    /\ tasks = {}
    /\ polls = [j \in JobIds |-> NoPoll]
    /\ jobs = [j \in JobIds |-> NoJob]
    /\ nJobs = 0
    /\ mounted = TRUE

\* a promise in flight: the job it belongs to, the handler that awaits it
\* (kind), the await it is suspended at (pc), the tick that started a poll or
\* the data.preview.length of an automatic follow-up (n), the reviewId
\* argument (rid) and the state values its closure reads (cl...; a field the
\* handler never reads holds its empty value)
Task(j, kind, pc, n, rid, raw, t, rev, prog, frozen) ==
    [job |-> j, kind |-> kind, pc |-> pc, n |-> n, rid |-> rid,
     clRaw |-> raw, clTopic |-> t, clReview |-> rev, clProgress |-> prog,
     frozen |-> frozen]

FetchKinds == {"auto", "poll", "retry"}
UserKinds == {"retry", "loadSide", "loadHead", "test"}
UserFetches == Cardinality({t \in tasks : t.kind \in UserKinds})

\* api.generateReview(topic) resolves with {status, preview, review_id} or rejects
GenResponses ==
    {[ok |-> FALSE, status |-> "none", previewLen |-> 0]}
      \cup {[ok |-> TRUE, status |-> "completed", previewLen |-> n] : n \in PreviewLens}
      \cup {[ok |-> TRUE, status |-> "processing", previewLen |-> 0]}

\* api.getReview(id) resolves with {content, word_count} or rejects
GetResponses ==
    {[ok |-> FALSE, len |-> 0]} \cup {[ok |-> TRUE, len |-> n] : n \in ContentLens}

Toast(kind) == toast' = kind

\* history: the job's content was accepted as final / the job failed
Finish(j) ==
    IF j \notin JobIds THEN jobs
    ELSE [jobs EXCEPT ![j].phase = IF @ \in Terminal THEN @ ELSE "complete"]
Fail(j) ==
    [jobs EXCEPT ![j].phase = IF @ \in Terminal THEN @ ELSE "failed"]

\* no promise in flight and no timer scheduled
Idle == tasks = {} /\ \A j \in JobIds : ~polls[j].interval /\ ~polls[j].timeout

\* onChange of the topic input; the user is taken to edit the topic only
\* between jobs, while the page is idle
SetTopic(t) ==
    /\ mounted
    /\ t # topic
    /\ Idle
    /\ topic' = t
    /\ UNCHANGED <<review, rawMarkdown, isFullContentLoaded, generationProgress,
                   isGenerating, reviewId, toast, tasks, polls, jobs, nJobs>>
    /\ UNCHANGED <<mounted, elsewhere>>

\* a mutation that is replaced keeps the options of the render before the click
Freeze(t) ==
    IF t.kind = "gen" /\ ~t.frozen
    THEN [t EXCEPT !.frozen = TRUE, !.clRaw = rawMarkdown, !.clTopic = topic,
                   !.clProgress = generationProgress]
    ELSE t

\* the Generate Review button (disabled={!topic.trim() || isGenerating}):
\* handleGenerate, then mutationFn up to its await
HandleGenerate ==
    /\ mounted
    /\ Trim(topic) # <<>>
    /\ ~isGenerating
    /\ nJobs < MaxJobs
    /\ review' = NoReview
    /\ rawMarkdown' = NoContent
    /\ isFullContentLoaded' = FALSE
    /\ reviewId' = NoId
    /\ isGenerating' = TRUE
    /\ generationProgress' = ProgressSubmitted
    /\ nJobs' = nJobs + 1
    /\ jobs' = [jobs EXCEPT ![nJobs + 1].phase = "submitted"]
    /\ tasks' = {Freeze(t) : t \in tasks}
                  \cup {Task(nJobs + 1, "gen", "generate", 0, NoId, NoContent,
                             EmptyTopic, NoReview, 0, FALSE)}
    /\ UNCHANGED <<topic, toast, polls>>
    /\ UNCHANGED <<mounted, elsewhere>>

\* generateReviewMutation.onError
GenerateError(t) ==
    /\ isGenerating' = FALSE
    /\ generationProgress' = 0
    /\ Toast("generationFailed")
    /\ tasks' = tasks \ {t}
    /\ jobs' = Fail(t.job)
    /\ UNCHANGED <<topic, review, rawMarkdown, isFullContentLoaded, reviewId,
                   polls, nJobs>>

\* generateReviewMutation.onSuccess, status completed with a preview: show the
\* preview, then fetchGeneratedReview(data.review_id) up to its first await
GeneratePreview(t, r, clRaw, clTopic, clProg) ==
    /\ reviewId' = ReviewIdOf(t.job)
    /\ rawMarkdown' = PreviewOf(t.job, r.previewLen)
    /\ isFullContentLoaded' = FALSE
    /\ generationProgress' = ProgressFetching
    /\ tasks' = (tasks \ {t})
                  \cup {Task(t.job, "auto", "primary", r.previewLen, ReviewIdOf(t.job),
                             clRaw, clTopic, NoReview, 0, TRUE)}
    /\ jobs' = [jobs EXCEPT ![t.job].phase = IF @ \in Terminal THEN @ ELSE "preview"]
    /\ UNCHANGED <<topic, review, isGenerating, toast, polls, nJobs>>

\* generateReviewMutation.onSuccess, otherwise: setInterval(..., 3000) and
\* setTimeout(..., 120000)
GeneratePolling(t, clRaw, clTopic, clProg) ==
    /\ reviewId' = ReviewIdOf(t.job)
    /\ generationProgress' = ProgressAccepted
    /\ polls' = [polls EXCEPT ![t.job] =
                   [interval |-> TRUE, timeout |-> TRUE, ticks |-> 0,
                    clProgress |-> clProg, clRaw |-> clRaw, clTopic |-> clTopic]]
    /\ tasks' = tasks \ {t}
    /\ jobs' = [jobs EXCEPT ![t.job].phase = IF @ \in Terminal THEN @ ELSE "polling"]
    /\ UNCHANGED <<topic, review, rawMarkdown, isFullContentLoaded, isGenerating,
                   toast, nJobs>>

\* the response of api.generateReview arrives
GenerateResponse(t, r) ==
    /\ t \in tasks
    /\ t.kind = "gen"
    /\ LET clRaw == IF t.frozen THEN t.clRaw ELSE rawMarkdown
           clTopic == IF t.frozen THEN t.clTopic ELSE topic
           clProg == IF t.frozen THEN t.clProgress ELSE generationProgress
       IN IF ~r.ok THEN GenerateError(t)
          ELSE IF r.status = "completed" /\ r.previewLen > 0
               THEN GeneratePreview(t, r, clRaw, clTopic, clProg)
               ELSE GeneratePolling(t, clRaw, clTopic, clProg)
    /\ UNCHANGED <<mounted, elsewhere>>

\* the setInterval callback of job j up to the first await of
\* fetchGeneratedReview: setGenerationProgress(prev => Math.min(prev + 10, 90)),
\* then setGenerationProgress(80)
Tick(j) ==
    /\ polls[j].interval
    /\ polls[j].ticks < TicksBeforeTimeout
    /\ generationProgress' = Batch(<<PollStep(generationProgress), ProgressFetching>>)
    /\ polls' = [polls EXCEPT ![j].ticks = @ + 1]
    /\ tasks' = tasks \cup {Task(j, "poll", "primary", polls[j].ticks + 1,
                                 ReviewIdOf(j), polls[j].clRaw, polls[j].clTopic,
                                 NoReview, 0, TRUE)}
    /\ UNCHANGED <<topic, review, rawMarkdown, isFullContentLoaded, isGenerating,
                   reviewId, toast, jobs, nJobs>>
    /\ UNCHANGED <<mounted, elsewhere>>

\* the setTimeout callback of job j: clearInterval, and the timeout notice when
\* the generationProgress of its closure is below 100
TimerFire(j) ==
    /\ polls[j].timeout
    /\ ~polls[j].interval \/ polls[j].ticks >= TicksBeforeTimeout
    /\ polls' = [polls EXCEPT ![j].interval = FALSE, ![j].timeout = FALSE]
    /\ IF polls[j].clProgress < ProgressDone
       THEN /\ Toast("generationTimeout")
            /\ isGenerating' = FALSE
            /\ generationProgress' = 0
            /\ jobs' = Fail(j)
       ELSE UNCHANGED <<toast, isGenerating, generationProgress, jobs>>
    /\ UNCHANGED <<topic, review, rawMarkdown, isFullContentLoaded, reviewId,
                   tasks, nJobs>>
    /\ UNCHANGED <<mounted, elsewhere>>

\* ---- fetchGeneratedReview(reviewId), from its awaits on ------------------
\* the identifier the suspended api.getReview call of task t was made with
RequestedId(t) ==
    IF t.pc = "primary" THEN t.rid ELSE TopicBasedId(t.clTopic)

\* what fetchGeneratedReview does with the response r of the call t awaits:
\*   "fallback" the call by reviewId rejected: call again by the topic-based id
\*   "content"  reviewData.content is there: it becomes the text shown
\*   "final"    catch with a text of more than 500 characters in its closure
\*   "error"    catch otherwise: error notice, and the error is thrown again
FetchOutcome(t, r) ==
    IF r.ok /\ r.len > 0 THEN "content"
    ELSE IF ~r.ok /\ t.pc = "primary" THEN "fallback"
    ELSE IF t.clRaw.len > FinalLength THEN "final"
    ELSE "error"

\* the variant of the branch below without setIsGenerating(false); not what
\* the page does
ShowFetchedContentStillGenerating(t, c) ==
    /\ rawMarkdown' = c
    /\ isFullContentLoaded' = TRUE
    /\ generationProgress' = ProgressDone
    /\ review' = MakeReview(t.rid, c)
    /\ UNCHANGED isGenerating
    /\ Toast("fullContentLoaded")
    /\ UNCHANGED <<topic, reviewId>>

\* if (reviewData.content) { ... }
ShowFetchedContent(t, c) ==
    /\ rawMarkdown' = c
    /\ isFullContentLoaded' = TRUE
    /\ generationProgress' = ProgressDone
    /\ review' = MakeReview(t.rid, c)
    /\ isGenerating' = FALSE
    /\ Toast("fullContentLoaded")
    /\ UNCHANGED <<topic, reviewId>>

\* catch: if (rawMarkdown && rawMarkdown.length > 500) { ... return }
UseClosureTextAsFinal(t) ==
    /\ isFullContentLoaded' = TRUE
    /\ generationProgress' = ProgressDone
    /\ isGenerating' = FALSE
    /\ review' = MakeReview(t.rid, t.clRaw)
    /\ Toast("reviewReady")
    /\ UNCHANGED <<topic, rawMarkdown, reviewId>>

\* catch: otherwise
ShowFetchError(t) ==
    /\ isGenerating' = FALSE
    /\ generationProgress' = 0
    /\ Toast("fetchError")
    /\ UNCHANGED <<topic, review, rawMarkdown, isFullContentLoaded, reviewId>>

\* clearInterval(pollInterval) after the awaited fetchGeneratedReview returned
ClearIntervalOf(t) ==
    IF t.kind = "poll" THEN [polls EXCEPT ![t.job].interval = FALSE] ELSE polls

\* the response r of the api.getReview call that task t (the automatic
\* follow-up, a poll or Retry Fetch, inside fetchGeneratedReview) awaits
FetchResponse(t, r) ==
    /\ t \in tasks
    /\ t.kind \in FetchKinds
    /\ t.pc \in {"primary", "fallback"}
    /\ LET o == FetchOutcome(t, r) IN
       CASE o = "fallback" ->
              /\ tasks' = (tasks \ {t}) \cup {[t EXCEPT !.pc = "fallback"]}
              /\ jobs' = IF t.kind = "auto"
                         THEN [jobs EXCEPT ![t.job].fallbacks = @ + 1] ELSE jobs
              /\ UNCHANGED <<topic, review, rawMarkdown, isFullContentLoaded,
                             generationProgress, isGenerating, reviewId, toast,
                             polls, nJobs>>
         [] o = "content" ->
              /\ ShowFetchedContent(t, ContentOf(RequestedId(t), r.len))
              /\ tasks' = tasks \ {t}
              /\ polls' = ClearIntervalOf(t)
              /\ jobs' = Finish(t.job)
              /\ UNCHANGED nJobs
         [] o = "final" ->
              /\ UseClosureTextAsFinal(t)
              /\ tasks' = tasks \ {t}
              /\ polls' = ClearIntervalOf(t)
              /\ jobs' = Finish(t.job)
              /\ UNCHANGED nJobs
         [] o = "error" ->
              /\ ShowFetchError(t)
              \* onSuccess catches the error and calls api.getReview(topicBasedId);
              \* the interval callback swallows it; nobody awaits Retry Fetch
              /\ tasks' = IF t.kind = "auto"
                          THEN (tasks \ {t}) \cup {[t EXCEPT !.pc = "fallback2"]}
                          ELSE tasks \ {t}
              /\ jobs' = IF t.kind = "auto"
                         THEN [jobs EXCEPT ![t.job].fallbacks = @ + 1] ELSE jobs
              /\ UNCHANGED <<polls, nJobs>>
    /\ UNCHANGED <<mounted, elsewhere>>

\* ---- onSuccess after fetchGeneratedReview threw: the topic-based retry ----
\* reviewData.content is there: "Full review loaded!"
ShowTopicBasedContent(t, c) ==
    /\ rawMarkdown' = c
    /\ isFullContentLoaded' = TRUE
    /\ generationProgress' = ProgressDone
    /\ isGenerating' = FALSE
    /\ review' = MakeReview(t.rid, c)
    /\ Toast("fullReviewLoaded")
    /\ UNCHANGED <<topic, reviewId>>

\* "If both approaches fail, treat the preview as final content"
TreatPreviewAsFinal(t) ==
    /\ isFullContentLoaded' = TRUE
    /\ generationProgress' = ProgressDone
    /\ isGenerating' = FALSE
    /\ review' = MakeReview(t.rid, PreviewOf(t.job, t.n))
    /\ Toast("reviewReadyPreview")
    /\ UNCHANGED <<topic, rawMarkdown, reviewId>>

TopicRetryResponse(t, r) ==
    /\ t \in tasks
    /\ t.kind = "auto"
    /\ t.pc = "fallback2"
    /\ tasks' = tasks \ {t}
    /\ IF r.ok /\ r.len > 0
       THEN /\ ShowTopicBasedContent(t, ContentOf(TopicBasedId(t.clTopic), r.len))
            /\ jobs' = Finish(t.job)
       ELSE /\ TreatPreviewAsFinal(t)
            /\ jobs' = Finish(t.job)
    /\ UNCHANGED <<polls, nJobs>>
    /\ UNCHANGED <<mounted, elsewhere>>

\* ---- the buttons shown next to a text ----------------------------------
\* {reviewId && rawMarkdown && rawMarkdown.length > 0 && ( ... {!review && ...
RetryVisible ==
    reviewId # NoId /\ rawMarkdown.len > 0 /\ review = NoReview

\* both Load Full Content buttons: !isFullContentLoaded, a reviewId, a text;
\* disabled (or hidden) while isGenerating
LoadFullVisible ==
    ~isFullContentLoaded /\ reviewId # NoId /\ rawMarkdown.len > 0

\* Retry Fetch Review: handleRetryFetch up to the first await
HandleRetryFetch ==
    /\ mounted
    /\ RetryVisible
    /\ UserFetches < MaxUserFetches
    /\ isGenerating' = TRUE
    /\ generationProgress' = ProgressFetching
    /\ tasks' = tasks \cup {Task(nJobs, "retry", "primary", 0, reviewId, rawMarkdown,
                                 topic, NoReview, 0, TRUE)}
    /\ UNCHANGED <<topic, review, rawMarkdown, isFullContentLoaded, reviewId, toast,
                   polls, jobs, nJobs>>
    /\ UNCHANGED <<mounted, elsewhere>>

\* Use Current Content
UseCurrentContent ==
    /\ mounted
    /\ RetryVisible
    /\ rawMarkdown.len > FinalLength
    /\ review' = MakeReview(reviewId, rawMarkdown)
    /\ isFullContentLoaded' = TRUE
    /\ Toast("reviewReady")
    /\ jobs' = IF isGenerating THEN jobs ELSE Finish(nJobs)
    /\ UNCHANGED <<topic, rawMarkdown, generationProgress, isGenerating, reviewId,
                   tasks, polls, nJobs>>
    /\ UNCHANGED <<mounted, elsewhere>>

\* Load Full Content (kind "loadSide": the button under the topic input,
\* kind "loadHead": the button in the header of the review), up to the await
LoadFullContent(kind) ==
    /\ mounted
    /\ LoadFullVisible
    /\ ~isGenerating
    /\ UserFetches < MaxUserFetches
    /\ isGenerating' = TRUE
    /\ tasks' = tasks \cup {Task(nJobs, kind, "fallback", 0, NoId, rawMarkdown,
                                 topic, review, 0, TRUE)}
    /\ UNCHANGED <<topic, review, rawMarkdown, isFullContentLoaded,
                   generationProgress, reviewId, toast, polls, jobs, nJobs>>
    /\ UNCHANGED <<mounted, elsewhere>>

\* the response of the api.getReview(topicBasedId) call of Load Full Content
LoadFullResponse(t, r) ==
    /\ t \in tasks
    /\ t.kind \in {"loadSide", "loadHead"}
    /\ tasks' = tasks \ {t}
    /\ isGenerating' = FALSE
    /\ IF r.ok /\ r.len > 0 /\ r.len > t.clRaw.len
       THEN /\ rawMarkdown' = ContentOf(TopicBasedId(t.clTopic), r.len)
            /\ isFullContentLoaded' = TRUE
            /\ review' = IF t.clReview # NoReview
                         THEN [t.clReview EXCEPT !.abstract = rawMarkdown']
                         ELSE review
            /\ Toast("fullContentLoaded")
            /\ jobs' = Finish(t.job)
       ELSE IF r.ok
       THEN /\ Toast("contentCurrent")
            /\ isFullContentLoaded' =
                 IF t.kind = "loadHead" THEN TRUE ELSE isFullContentLoaded
            /\ jobs' = IF t.kind = "loadHead" THEN Finish(t.job)
                       ELSE jobs
            /\ UNCHANGED <<rawMarkdown, review>>
       ELSE /\ Toast("loadFailed")
            /\ UNCHANGED <<rawMarkdown, review, isFullContentLoaded, jobs>>
    /\ UNCHANGED <<topic, generationProgress, reviewId, polls, nJobs>>
    /\ UNCHANGED <<mounted, elsewhere>>

\* Load Existing Review (Test): shown when the topic names machine learning
\* and healthcare, disabled while isGenerating; up to the await
TestVisible ==
    /\ Includes(ToLowerCase(topic), <<"m", "l">>)
    /\ Includes(ToLowerCase(topic), <<"h">>)

LoadExistingReview ==
    /\ mounted
    /\ TestVisible
    /\ ~isGenerating
    /\ UserFetches < MaxUserFetches
    /\ isGenerating' = TRUE
    /\ rawMarkdown' = NoContent
    /\ review' = NoReview
    /\ tasks' = tasks \cup {Task(nJobs, "test", "primary", 0, TestId, NoContent,
                                 EmptyTopic, NoReview, 0, TRUE)}
    /\ UNCHANGED <<topic, isFullContentLoaded, generationProgress, reviewId, toast,
                   polls, jobs, nJobs>>
    /\ UNCHANGED <<mounted, elsewhere>>

LoadExistingResponse(t, r) ==
    /\ t \in tasks
    /\ t.kind = "test"
    /\ tasks' = tasks \ {t}
    /\ isGenerating' = FALSE
    /\ IF r.ok /\ r.len > 0
       THEN /\ rawMarkdown' = ContentOf(TestId, r.len)
            /\ isFullContentLoaded' = TRUE
            /\ reviewId' = TestId
            /\ review' = MakeReview(TestId, rawMarkdown')
            /\ Toast("existingLoaded")
       ELSE IF r.ok
       THEN UNCHANGED <<rawMarkdown, isFullContentLoaded, reviewId, review, toast>>
       ELSE /\ Toast("loadExistingFailed")
            /\ UNCHANGED <<rawMarkdown, isFullContentLoaded, reviewId, review>>
    /\ UNCHANGED <<topic, generationProgress, polls, jobs, nJobs>>
    /\ UNCHANGED <<mounted, elsewhere>>

Next ==
    \/ \E t \in Topics : SetTopic(t)
    \/ HandleGenerate
    \/ \E t \in tasks, r \in GenResponses : GenerateResponse(t, r)
    \/ \E j \in JobIds : Tick(j)
    \/ \E j \in JobIds : TimerFire(j)
    \/ \E t \in tasks, r \in GetResponses : FetchResponse(t, r)
    \/ \E t \in tasks, r \in GetResponses : TopicRetryResponse(t, r)
    \/ HandleRetryFetch
    \/ UseCurrentContent
    \/ \E kind \in {"loadSide", "loadHead"} : LoadFullContent(kind)
    \/ \E t \in tasks, r \in GetResponses : LoadFullResponse(t, r)
    \/ LoadExistingReview
    \/ \E t \in tasks, r \in GetResponses : LoadExistingResponse(t, r)

Spec == Init /\ [][Next]_vars

\* ---- leaving the page ---------------------------------------------------
\* the user navigates to another route: wouter's Switch stops rendering the
\* page and React unmounts it.  The page registers no cleanup (it has no
\* useEffect), so its interval, its timer and its pending promises stay; the
\* callbacks that run afterwards call the setters of the unmounted page, and
\* the variables keep recording the values they pass.  The Toaster is rendered
\* by App and outlives the page.
Unmount ==
    /\ mounted
    /\ mounted' = FALSE
    /\ UNCHANGED <<topic, review, rawMarkdown, isFullContentLoaded,
                   generationProgress, isGenerating, reviewId, toast, tasks,
                   polls, jobs, nJobs, elsewhere>>

TeardownNext == Next \/ Unmount

TeardownSpec == Init /\ [][TeardownNext]_vars

\* every api call that was issued settles: the promise of each kind of caller
\* resolves or rejects, and its continuation runs
Settles(kinds) ==
    \E t \in tasks, r \in GetResponses :
        /\ t.kind \in kinds
        /\ \/ FetchResponse(t, r)
           \/ TopicRetryResponse(t, r)
           \/ LoadFullResponse(t, r)
           \/ LoadExistingResponse(t, r)
GenerateSettles == \E t \in tasks, r \in GenResponses : GenerateResponse(t, r)

FairSpec ==
    /\ Spec
    /\ WF_vars(GenerateSettles)
    /\ WF_vars(Settles({"auto"}))
    /\ WF_vars(Settles({"poll"}))
    /\ WF_vars(Settles(UserKinds))

\* ---- the system status indicator ----------------------------------------
\* number of times useQuery calls checkBackendConnectivity (on mount, then
\* every refetchInterval, or on Refresh)
MaxChecks == 2

Probes == <<"main", "cag", "insights">>
Services == {"main", "cag", "insights"}
\* what comes after each probe in checkBackendConnectivity
AfterProbe == [main |-> "cag", cag |-> "insights", insights |-> "aggregate"]

\* what one probe can meet: the api call rejects (network error, or
\* !response.ok), the body is null, or the body has the declared shape
ProbeOutcomes(p) ==
    IF p = "insights"
    THEN {"rejects", "null", "available", "unavailable"}
    ELSE {"rejects", "null", "healthy", "degraded"}

\* the body of a try block throws: the awaited call rejected, or the body is
\* null and reading its status / availability raises a TypeError
Throws(o) == o \in {"rejects", "null"}
\* mainHealth.status === 'healthy', cagHealth.status === 'healthy',
\* insightsStatus.availability
Reported(p, o) == IF p = "insights" THEN o = "available" ELSE o = "healthy"

\* a probe whose exception leaves the function
ProbeUncaught(p, o) ==
    [escapes |-> Throws(o), assigned |-> ~Throws(o), value |-> Reported(p, o)]
\* try { ...; results.services.p = ... } catch (error) { console.error(...) }
TryProbe(p, o) ==
    [escapes |-> FALSE, assigned |-> ~Throws(o), value |-> Reported(p, o)]

\* Object.values(services).every(Boolean)
EveryService(services) == \A p \in Services : services[p]
\* Object.values(results.services).some(Boolean)
SomeService(services) == \E p \in Services : services[p]

\* useQuery calls the query function; checkBackendConnectivity creates results
\* and reaches its first await
StartCheck ==
    /\ step = "idle"
    /\ nChecks < MaxChecks
    /\ nChecks' = nChecks + 1
    /\ results' = NoResults
    /\ probed' = <<>>
    /\ promise' = "pending"
    /\ step' = "main"
    /\ UNCHANGED <<systemHealth, reviewVars, chatVars, widgets>>

\* the awaited call of probe p settles with outcome o and the function runs to
\* its next await
Probe(p, o) ==
    /\ step = p
    /\ probed' = Append(probed, <<p, o>>)
    /\ LET r == TryProbe(p, o) IN
        IF r.escapes
        THEN /\ promise' = "rejected"
             /\ step' = "idle"
             /\ UNCHANGED results
        ELSE /\ results' = IF r.assigned
                           THEN [results EXCEPT !.services[p] = r.value]
                           ELSE results
             /\ step' = AfterProbe[p]
             /\ UNCHANGED promise
    /\ UNCHANGED <<systemHealth, nChecks, reviewVars, chatVars, widgets>>

\* results.isHealthy = ...some(Boolean); return results; useQuery stores it
Aggregate ==
    /\ step = "aggregate"
    /\ LET done == [results EXCEPT !.isHealthy = SomeService(results.services)] IN
        /\ results' = done
        /\ systemHealth' = done
    /\ promise' = "fulfilled"
    /\ step' = "idle"
    /\ UNCHANGED <<probed, nChecks, reviewVars, chatVars, widgets>>

HealthNext ==
    \/ StartCheck
    \/ \E p \in Services : \E o \in ProbeOutcomes(p) : Probe(p, o)
    \/ Aggregate

HealthSpec == Init /\ [][HealthNext]_vars

\* ---- the document chat page ----------------------------------------------
MaxSends == 2
MaxClears == 1
MaxRefreshes == 1
MaxUploads == 1

\* a chat message (content is the number of the question it belongs to) and
\* an entry of conversation_history
Message(sender, n) == [sender |-> sender, turn |-> n]
Entry(role, n) == [role |-> role, turn |-> n]

\* conversation_history.map(msg => ({content: msg.content,
\*   sender: msg.role === 'user' ? 'user' : 'assistant', ...}))
HistoryMessages(h) ==
    [i \in DOMAIN h |->
        Message(IF h[i].role = "user" THEN "user" ELSE "assistant", h[i].turn)]

Range(f) == {f[i] : i \in DOMAIN f}
IsPrefix(a, b) == Len(a) <= Len(b) /\ SubSeq(b, 1, Len(a)) = a

others == <<reviewState, healthVars, widgets>>

\* -- the backend serves a request that reached it
ServeStatus(ok) ==
    /\ statusFetch.st = "sent"
    /\ statusFetch' = [statusFetch EXCEPT !.st = "served", !.ok = ok,
                                          !.files = ok /\ serverDocs]
    /\ UNCHANGED <<documents, messages, documentStatus, conversationStats,
                   statsFetch, uploadReq, askReq, resetReq, clearReq,
                   serverHistory, serverDocs, nSent, nClears, nRefreshes,
                   nUploads, cleared, toast, others>>

ServeStats(ok) ==
    /\ statsFetch.st = "sent"
    /\ statsFetch' = [statsFetch EXCEPT !.st = "served", !.ok = ok,
                          !.history = IF ok THEN serverHistory ELSE <<>>]
    /\ UNCHANGED <<documents, messages, documentStatus, conversationStats,
                   statusFetch, uploadReq, askReq, resetReq, clearReq,
                   serverHistory, serverDocs, nSent, nClears, nRefreshes,
                   nUploads, cleared, toast, others>>

ServeUpload(ok) ==
    /\ uploadReq.st = "sent"
    /\ uploadReq' = [uploadReq EXCEPT !.st = "served", !.ok = ok]
    /\ serverDocs' = (serverDocs \/ ok)
    /\ UNCHANGED <<documents, messages, documentStatus, conversationStats,
                   statusFetch, statsFetch, askReq, resetReq, clearReq,
                   serverHistory, nSent, nClears, nRefreshes, nUploads,
                   cleared, toast, others>>

\* the backend answers the question and records question and answer
ServeAsk(ok) ==
    /\ askReq.st = "sent"
    /\ askReq' = [askReq EXCEPT !.st = "served", !.ok = ok]
    /\ serverHistory' =
          IF ok THEN serverHistory \o <<Entry("user", askReq.turn),
                                        Entry("assistant", askReq.turn)>>
                ELSE serverHistory
    /\ UNCHANGED <<documents, messages, documentStatus, conversationStats,
                   statusFetch, statsFetch, uploadReq, resetReq, clearReq,
                   serverDocs, nSent, nClears, nRefreshes, nUploads, cleared,
                   toast, others>>

ServeReset(ok) ==
    /\ resetReq.st = "sent"
    /\ resetReq' = [resetReq EXCEPT !.st = "served", !.ok = ok]
    /\ serverHistory' = IF ok THEN <<>> ELSE serverHistory
    /\ serverDocs' = (serverDocs /\ ~ok)
    /\ UNCHANGED <<documents, messages, documentStatus, conversationStats,
                   statusFetch, statsFetch, uploadReq, askReq, clearReq, nSent,
                   nClears, nRefreshes, nUploads, cleared, toast, others>>

ServeClear(ok) ==
    /\ clearReq.st = "sent"
    /\ clearReq' = [clearReq EXCEPT !.st = "served", !.ok = ok]
    /\ serverHistory' = IF ok THEN <<>> ELSE serverHistory
    /\ UNCHANGED <<documents, messages, documentStatus, conversationStats,
                   statusFetch, statsFetch, uploadReq, askReq, resetReq,
                   serverDocs, nSent, nClears, nRefreshes, nUploads, cleared,
                   toast, others>>

\* -- the queries
\* refetchInterval: 5000 starts a fetch unless one is in flight
RefetchInterval ==
    /\ statsFetch.st = "idle"
    /\ nRefreshes < MaxRefreshes
    /\ nRefreshes' = nRefreshes + 1
    /\ statsFetch' = Sent
    /\ UNCHANGED <<documents, messages, documentStatus, conversationStats,
                   statusFetch, uploadReq, askReq, resetReq, clearReq,
                   serverHistory, serverDocs, nSent, nClears, nUploads,
                   cleared, toast, others>>

\* the stats response arrives: the query stores its data (keeping the old
\* object when the data are equal); on changed data the effect replaces the
\* messages by the history unless the history is empty
StatsResponse ==
    /\ statsFetch.st = "served"
    /\ statsFetch' = NoRequest
    /\ IF statsFetch.ok
       THEN /\ conversationStats' = statsFetch.history
            /\ messages' =
                  IF /\ statsFetch.history # conversationStats
                     /\ Len(statsFetch.history) > 0
                  THEN HistoryMessages(statsFetch.history)
                  ELSE messages
       ELSE UNCHANGED <<conversationStats, messages>>
    /\ UNCHANGED <<documents, documentStatus, statusFetch, uploadReq, askReq,
                   resetReq, clearReq, serverHistory, serverDocs, nSent,
                   nClears, nRefreshes, nUploads, cleared, toast, others>>

\* the document status response arrives; on changed data that list processed
\* files the effect sets the documents
StatusResponse ==
    /\ statusFetch.st = "served"
    /\ statusFetch' = NoRequest
    /\ IF statusFetch.ok
       THEN /\ documentStatus' = statusFetch.files
            /\ documents' =
                  IF statusFetch.files # documentStatus /\ statusFetch.files
                  THEN TRUE ELSE documents
       ELSE UNCHANGED <<documentStatus, documents>>
    /\ UNCHANGED <<messages, conversationStats, statsFetch, uploadReq, askReq,
                   resetReq, clearReq, serverHistory, serverDocs, nSent,
                   nClears, nRefreshes, nUploads, cleared, toast, others>>

\* -- uploading
HandleFilesChange ==
    /\ uploadReq.st = "idle"
    /\ nUploads < MaxUploads
    /\ nUploads' = nUploads + 1
    /\ uploadReq' = Sent
    /\ UNCHANGED <<documents, messages, documentStatus, conversationStats,
                   statusFetch, statsFetch, askReq, resetReq, clearReq,
                   serverHistory, serverDocs, nSent, nClears, nRefreshes,
                   cleared, toast, others>>

UploadResponse ==
    /\ uploadReq.st = "served"
    /\ uploadReq' = NoRequest
    /\ IF uploadReq.ok
       THEN /\ documents' = TRUE
            /\ toast' = "documentsUploaded"
            /\ statusFetch' = Sent
       ELSE /\ toast' = "chatError"
            /\ UNCHANGED <<documents, statusFetch>>
    /\ UNCHANGED <<messages, documentStatus, conversationStats, statsFetch,
                   askReq, resetReq, clearReq, serverHistory, serverDocs, nSent,
                   nClears, nRefreshes, nUploads, cleared, others>>

\* -- asking
\* ChatInterface submits only while no question is pending; handleSendMessage
HandleSendMessage ==
    /\ askReq.st = "idle"
    /\ nSent < MaxSends
    /\ IF ~documents /\ ~documentStatus
       THEN /\ toast' = "noDocuments"
            /\ UNCHANGED <<messages, askReq, nSent>>
       ELSE /\ nSent' = nSent + 1
            /\ messages' = Append(messages, Message("user", nSent + 1))
            /\ askReq' = [Sent EXCEPT !.turn = nSent + 1]
            /\ UNCHANGED toast
    /\ UNCHANGED <<documents, documentStatus, conversationStats, statusFetch,
                   statsFetch, uploadReq, resetReq, clearReq, serverHistory,
                   serverDocs, nClears, nRefreshes, nUploads, cleared, others>>

\* askQuestionMutation onSuccess / onError
AskResponse ==
    /\ askReq.st = "served"
    /\ askReq' = NoRequest
    /\ IF askReq.ok
       THEN /\ messages' = Append(messages, Message("assistant", askReq.turn))
            /\ statsFetch' = Sent
            /\ UNCHANGED toast
       ELSE /\ toast' = "chatError"
            /\ UNCHANGED <<messages, statsFetch>>
    /\ UNCHANGED <<documents, documentStatus, conversationStats, statusFetch,
                   uploadReq, resetReq, clearReq, serverHistory, serverDocs,
                   nSent, nClears, nRefreshes, nUploads, cleared, others>>

\* -- resetting
ResetSession ==
    /\ resetReq.st = "idle"
    /\ nClears < MaxClears
    /\ nClears' = nClears + 1
    /\ resetReq' = Sent
    /\ UNCHANGED <<documents, messages, documentStatus, conversationStats,
                   statusFetch, statsFetch, uploadReq, askReq, clearReq,
                   serverHistory, serverDocs, nSent, nRefreshes, nUploads,
                   cleared, toast, others>>

\* resetSessionMutation onSuccess / onError
ResetResponse ==
    /\ resetReq.st = "served"
    /\ resetReq' = NoRequest
    /\ IF resetReq.ok
       THEN /\ messages' = <<>>
            /\ documents' = FALSE
            /\ toast' = "sessionReset"
            /\ statusFetch' = Sent
            /\ statsFetch' = Sent
            /\ cleared' = cleared \cup Range(messages)
       ELSE /\ toast' = "chatError"
            /\ UNCHANGED <<messages, documents, statusFetch, statsFetch, cleared>>
    /\ UNCHANGED <<documentStatus, conversationStats, uploadReq, askReq,
                   clearReq, serverHistory, serverDocs, nSent, nClears,
                   nRefreshes, nUploads, others>>

ClearConversation ==
    /\ clearReq.st = "idle"
    /\ nClears < MaxClears
    /\ nClears' = nClears + 1
    /\ clearReq' = Sent
    /\ UNCHANGED <<documents, messages, documentStatus, conversationStats,
                   statusFetch, statsFetch, uploadReq, askReq, resetReq,
                   serverHistory, serverDocs, nSent, nRefreshes, nUploads,
                   cleared, toast, others>>

\* clearConversationMutation onSuccess / onError
ClearResponse ==
    /\ clearReq.st = "served"
    /\ clearReq' = NoRequest
    /\ IF clearReq.ok
       THEN /\ messages' = <<>>
            /\ toast' = "conversationCleared"
            /\ statsFetch' = Sent
            /\ cleared' = cleared \cup Range(messages)
       ELSE /\ toast' = "chatError"
            /\ UNCHANGED <<messages, statsFetch, cleared>>
    /\ UNCHANGED <<documents, documentStatus, conversationStats, statusFetch,
                   uploadReq, askReq, resetReq, serverHistory, serverDocs,
                   nSent, nClears, nRefreshes, nUploads, others>>

ChatNext ==
    \/ \E ok \in BOOLEAN : ServeStatus(ok)
    \/ \E ok \in BOOLEAN : ServeStats(ok)
    \/ \E ok \in BOOLEAN : ServeUpload(ok)
    \/ \E ok \in BOOLEAN : ServeAsk(ok)
    \/ \E ok \in BOOLEAN : ServeReset(ok)
    \/ \E ok \in BOOLEAN : ServeClear(ok)
    \/ RefetchInterval
    \/ StatsResponse
    \/ StatusResponse
    \/ HandleFilesChange
    \/ UploadResponse
    \/ HandleSendMessage
    \/ AskResponse
    \/ ResetSession
    \/ ResetResponse
    \/ ClearConversation
    \/ ClearResponse

ChatSpec == Init /\ [][ChatNext]_vars

\* ---- the research stream ---------------------------------------------------
MaxEvents == 2
MaxDataLen == 2

\* event.data: short texts over the characters 1 { }
DataChars == {"1", "{", "}"}
StreamData == UNION {[1..n -> DataChars] : n \in 0..MaxDataLen}

\* JSON.parse on these texts: a run of digits is a number, {} is the empty
\* object, every other text raises a SyntaxError
RECURSIVE NumberValue(_)
NumberValue(d) ==
    IF d = <<>> THEN 0 ELSE 10 * NumberValue(SubSeq(d, 1, Len(d) - 1)) + 1
JsonParse(d) ==
    IF d # <<>> /\ \A i \in DOMAIN d : d[i] = "1"
    THEN [ok |-> TRUE, type |-> "number", n |-> NumberValue(d)]
    ELSE IF d = <<"{", "}">>
    THEN [ok |-> TRUE, type |-> "object", n |-> 0]
    ELSE [ok |-> FALSE, type |-> "SyntaxError", n |-> 0]

\* a handler that gives the stream up when a message does not parse
CloseOnParseFailure(d) ==
    LET data == JsonParse(d) IN
    [calls |-> IF data.ok THEN <<data>> ELSE <<>>, closes |-> ~data.ok]
\* eventSource.onmessage: try { onMessage(JSON.parse(event.data)) }
\* catch (error) { console.error(...) }
OnMessageHandler(d) ==
    LET data == JsonParse(d) IN
    [calls |-> IF data.ok THEN <<data>> ELSE <<>>, closes |-> FALSE]

\* new EventSource(...), handlers installed, the connection opens
CreateResearchStream ==
    /\ readyState = "none"
    /\ readyState' = "open"
    /\ UNCHANGED <<arrived, delivered, closedBy, besideStream>>

\* a message event with data d is dispatched; the callback onMessage may
\* itself throw, which the same catch swallows
MessageEvent(d, callbackThrows) ==
    /\ readyState = "open"
    /\ Len(arrived) < MaxEvents
    /\ arrived' = Append(arrived, d)
    /\ LET h == OnMessageHandler(d) IN
        /\ delivered' = delivered \o h.calls
        /\ IF h.closes
           THEN readyState' = "closed" /\ closedBy' = "parse failure"
           ELSE UNCHANGED <<readyState, closedBy>>
    /\ UNCHANGED besideStream

\* the connection fails for good: the browser closes the EventSource and
\* dispatches an error event (to onError, if one was given)
StreamFails ==
    /\ readyState = "open"
    /\ readyState' = "closed"
    /\ closedBy' = "connection"
    /\ UNCHANGED <<arrived, delivered, besideStream>>

\* the caller closes the EventSource that createResearchStream returned
CloseStream ==
    /\ readyState = "open"
    /\ readyState' = "closed"
    /\ closedBy' = "caller"
    /\ UNCHANGED <<arrived, delivered, besideStream>>

StreamNext ==
    \/ CreateResearchStream
    \/ \E d \in StreamData, callbackThrows \in BOOLEAN : MessageEvent(d, callbackThrows)
    \/ StreamFails
    \/ CloseStream

StreamSpec == Init /\ [][StreamNext]_vars

\* ---- the api client -------------------------------------------------------
MaxCalls == 2

\* response.status, as the text an error message would show
Statuses == {"200", "404", "500"}
\* response.ok
Ok(status) == status = "200"
\* the raw response text
Bodies == {<<"{", "}">>, <<"1">>, <<"{">>}
NoText == <<>>

\* what a wrapper call ends with: the parsed body, or an Error whose message
\* is built from a fixed phrase, possibly the status and possibly the text
Returns(value) ==
    [kind |-> "returned", value |-> value, phrase |-> "", status |-> "", text |-> NoText]
Raises(phrase, status, text) ==
    [kind |-> "raised", value |-> JsonParse(NoText), phrase |-> phrase,
     status |-> status, text |-> text]
\* return response.json()
ReturnJson(body) ==
    IF JsonParse(body).ok THEN Returns(JsonParse(body))
                          ELSE Raises("SyntaxError", "", NoText)
\* { podcasts: [] }
NoPodcasts == Returns([ok |-> TRUE, type |-> "object", n |-> 0])

\* api.ts: if (!response.ok) throw new Error('Failed to ...')
FixedMessageWrapper(status, body) ==
    IF ~Ok(status) THEN Raises("Failed to get review", "", NoText)
                   ELSE ReturnJson(body)
\* later variant: throw new Error(`Failed to get review: ${errorText}`)
TextMessageWrapper(status, body) ==
    IF ~Ok(status) THEN Raises("Failed to get review: ", "", body)
                   ELSE ReturnJson(body)
\* getGeneratedPodcasts: 404 gives { podcasts: [] }; its own throw is caught
\* and gives { podcasts: [] } as well
GetGeneratedPodcasts(status, body) ==
    IF ~Ok(status) THEN NoPodcasts ELSE ReturnJson(body)
\* generatePodcastWithFallback: `Generation failed: ${response.status}
\* ${response.statusText}`; on success a fixed object whatever the body is
GeneratePodcastWithFallback(status, body) ==
    IF ~Ok(status) THEN Raises("Generation failed: ", status, NoText)
                   ELSE Returns([ok |-> TRUE, type |-> "object", n |-> 0])

Wrappers == {"getReview", "getReview (later)", "getGeneratedPodcasts",
             "generatePodcastWithFallback"}
Outcome(w, status, body) ==
    CASE w = "getReview" -> FixedMessageWrapper(status, body)
      [] w = "getReview (later)" -> TextMessageWrapper(status, body)
      [] w = "getGeneratedPodcasts" -> GetGeneratedPodcasts(status, body)
      [] w = "generatePodcastWithFallback" -> GeneratePodcastWithFallback(status, body)

\* a wrapper is called and the backend answers with a status and a body
Request(w, status, body) ==
    /\ Len(calls) < MaxCalls
    /\ calls' = Append(calls, [wrapper |-> w, status |-> status, body |-> body,
                               outcome |-> Outcome(w, status, body)])
    /\ UNCHANGED besideClient

ClientNext == \E w \in Wrappers, status \in Statuses, body \in Bodies : Request(w, status, body)

ClientSpec == Init /\ [][ClientNext]_vars

\* ---- the statistics of a review object ------------------------------------
MaxStudies == 250

Max(a, b) == IF a >= b THEN a ELSE b

\* the studies estimates tried: the two ends of every step of floor(s / 8)
Estimates == {s \in 0..MaxStudies : s % 8 \in {0, 7}}

\* Math.random(), in thousandths
Randoms == {0, 67, 999}

\* Math.floor(studiesReviewed / 8), without the clamp
CountriesUnclamped(studiesReviewed) == studiesReviewed \div 8
\* Math.min(25, Math.max(5, Math.floor(studiesReviewed / 8)))
Countries(studiesReviewed) == Min(25, Max(5, studiesReviewed \div 8))
\* Math.max(75, Math.min(95, 80 + Math.floor(Math.random() * 15)))
QualityScore(random) == Max(75, Min(95, 80 + (random * 15) \div 1000))

\* a handler builds a review object from fetched or generated content: the
\* studies estimate is the number matched in the text, or
\* Math.max(20, Math.floor(wordCount / 100))
BuildStatistics(studiesReviewed, random) ==
    /\ statistics' = [built |-> TRUE, studiesReviewed |-> studiesReviewed,
                      estimate |-> studiesReviewed,
                      countries |-> Countries(studiesReviewed),
                      qualityScore |-> QualityScore(random)]
    /\ UNCHANGED besideMetrics

\* Load Full Content on an existing review: {...review.statistics,
\* studiesReviewed}
UpdateStudiesReviewed(studiesReviewed) ==
    /\ statistics.built
    /\ statistics' = [statistics EXCEPT !.studiesReviewed = studiesReviewed]
    /\ UNCHANGED besideMetrics

\* the simulated variant builds its review with fixed statistics
BuildSampleStatistics ==
    /\ statistics' = [built |-> TRUE, studiesReviewed |-> 127, estimate |-> 127,
                      countries |-> 15, qualityScore |-> 89]
    /\ UNCHANGED besideMetrics

MetricsNext ==
    \/ \E s \in Estimates, random \in Randoms : BuildStatistics(s, random)
    \/ \E s \in Estimates : UpdateStudiesReviewed(s)
    \/ BuildSampleStatistics

MetricsSpec == Init /\ [][MetricsNext]_vars

\* ---- parseReferences --------------------------------------------------------
MaxParses == 2
MaxRefItems == 2

\* the pieces a reference is written with: an author name, a year in
\* parentheses followed by a period, a sentence ending in a period
YearTokens == {"(2020)."}
RefTokens == {"Smith J", "A title."} \cup YearTokens
\* their lengths in characters
TokenLength(t) ==
    CASE t = "Smith J" -> 7 [] t = "A title." -> 8 [] t = "(2020)." -> 7
\* parseInt of the four digits
YearOf(t) == 2020

\* the items of the references section (the section split at blank lines):
\* authors, year and titles; authors and titles; a title alone
RefItems == {<<"Smith J", "Smith J", "(2020).", "A title.">>,
             <<"Smith J", "Smith J", "A title.">>,
             <<"A title.">>}
RefTexts == UNION {[1..n -> RefItems] : n \in 0..MaxRefItems}

RECURSIVE ItemLength(_)
\* trimmedRef.length: the pieces and the spaces between them
ItemLength(item) ==
    IF item = <<>> THEN 0
    ELSE IF Len(item) = 1 THEN TokenLength(item[1])
    ELSE TokenLength(item[1]) + 1 + ItemLength(Tail(item))

\* /^([^.]+?)\s+\((\d{4})\)\./ : text without a period, then the year
AuthorYearAt(item) ==
    {k \in 2..Len(item) :
        /\ item[k] \in YearTokens
        /\ \A i \in 1..(k - 1) : item[i] = "Smith J"}
\* the first sentence after the year, or the second sentence of the item
TitleOf(item) ==
    LET titles == {i \in DOMAIN item : item[i] = "A title."} IN
    IF titles = {} THEN "" ELSE "A title"

\* one reference as parseReferences builds it when the clock shows year
\* clock; index counts the items of the section from 1
ParseReference(item, index, clock) ==
    LET m == AuthorYearAt(item) IN
    [id |-> index,
     title |-> TitleOf(item),
     authors |-> IF m = {} THEN <<>> ELSE SubSeq(item, 1, (CHOOSE k \in m : TRUE) - 1),
     year |-> IF m = {} THEN clock ELSE YearOf(item[CHOOSE k \in m : TRUE]),
     journal |-> "", doi |-> "", url |-> "", pmid |-> "", arxivId |-> ""]

RECURSIVE ParseFrom(_, _, _)
\* refItems.forEach: items shorter than 20 characters are skipped
ParseFrom(text, index, clock) ==
    IF index > Len(text) THEN <<>>
    ELSE (IF ItemLength(text[index]) < 20 THEN <<>>
          ELSE <<ParseReference(text[index], index, clock)>>)
         \o ParseFrom(text, index + 1, clock)
ParseReferences(text, clock) == ParseFrom(text, 1, clock)

\* a handler calls parseReferences on the content it shows
CallParseReferences(text) ==
    /\ Len(parsed) < MaxParses
    /\ parsed' = Append(parsed, [text |-> text, references |-> ParseReferences(text, now)])
    /\ UNCHANGED <<now, besideReferences>>

\* the year changes
NewYear ==
    /\ now < LastYear
    /\ now' = now + 1
    /\ UNCHANGED <<parsed, besideReferences>>

ReferencesNext ==
    \/ \E text \in RefTexts : CallParseReferences(text)
    \/ NewYear

ReferencesSpec == Init /\ [][ReferencesNext]_vars

\* ---- FileUpload and the podcast page ---------------------------------------
MaxBatch == 2
MaxFiles == 3
MaxGenerations == 2

\* maxSize = 10 (MB), and the bytes of one MB
MaxSizeMB == 10
Megabyte == 1024 * 1024
\* accept = '.pdf', after type.replace('.', '').trim()
AcceptedType == <<"pdf">>

NoFile == [size |-> 0, type |-> <<>>, name |-> "null"]
\* the files a user can offer: a small, a limit-sized and an oversized one,
\* each as a PDF or as plain text
FileSizes == {1, MaxSizeMB * Megabyte, MaxSizeMB * Megabyte + 1}
FileTypes == {<<"application/", "pdf">>, <<"text/", "plain">>}
OfferedFiles == {[size |-> s, type |-> t, name |-> "file"] : s \in FileSizes, t \in FileTypes}
Batches == UNION {[1..n -> OfferedFiles] : n \in 0..MaxBatch}

\* validateFile without the size test
ValidateTypeOnly(file) ==
    IF ~Includes(file.type, AcceptedType) THEN "File type not supported" ELSE "null"
\* validateFile
ValidateFile(file) ==
    IF file.size > MaxSizeMB * Megabyte THEN "File size must be less than"
    ELSE IF ~Includes(file.type, AcceptedType) THEN "File type not supported"
    ELSE "null"

\* a FileUpload that takes one file whatever the page asks for
NeverMultiple == FALSE
\* the props the hosting page passes: multiple
Multiple == host = "demo"

\* onFilesChange(updatedFiles): both pages keep files[0] when there is one
OnFilesChange(updatedFiles) ==
    /\ notified' = [files |-> updatedFiles, flip |-> ~notified.flip]
    /\ uploadedFile' = IF Len(updatedFiles) > 0 THEN updatedFiles[1] ELSE uploadedFile

\* the user opens the podcast page or the preview demo page
MountUpload(hostPage) ==
    /\ host = "none"
    /\ host' = hostPage
    /\ UNCHANGED <<files, error, notified, uploadedFile, generatedPodcasts,
                   generating, lastOutcome, nGenerations, podcastNotice,
                   besideUpload>>

\* handleDrop / handleFileInput -> handleFiles(newFiles)
HandleFiles(newFiles) ==
    /\ host # "none"
    /\ Len(files) + Len(newFiles) <= MaxFiles
    /\ LET failing == {i \in DOMAIN newFiles : ValidateFile(newFiles[i]) # "null"}
           first == CHOOSE i \in failing : \A k \in failing : i <= k
       IN IF failing # {}
          THEN /\ error' = ValidateFile(newFiles[first])
               /\ UNCHANGED <<files, notified, uploadedFile>>
          ELSE /\ error' = "null"
               /\ files' = IF Multiple THEN files \o newFiles ELSE newFiles
               /\ OnFilesChange(files')
    /\ UNCHANGED <<host, generatedPodcasts, generating, lastOutcome,
                   nGenerations, podcastNotice, besideUpload>>

\* removeFile(index)
RemoveFile(index) ==
    /\ index \in DOMAIN files
    /\ files' = SubSeq(files, 1, index - 1) \o SubSeq(files, index + 1, Len(files))
    /\ OnFilesChange(files')
    /\ UNCHANGED <<host, error, generatedPodcasts, generating, lastOutcome,
                   nGenerations, podcastNotice, besideUpload>>

\* the Generate Podcast button (disabled without a file and while a
\* generation is pending) -> handleGenerate
PodcastHandleGenerate ==
    /\ host = "podcast"
    /\ uploadedFile # NoFile
    /\ generating.st = "idle"
    /\ nGenerations < MaxGenerations
    /\ IF uploadedFile.size > 10 * Megabyte
       THEN /\ podcastNotice' = "fileTooLarge"
            /\ UNCHANGED <<generating, nGenerations>>
       ELSE /\ podcastNotice' = "generating"
            /\ generating' = [st |-> "main", file |-> uploadedFile]
            /\ nGenerations' = nGenerations + 1
    /\ UNCHANGED <<host, files, error, notified, uploadedFile, generatedPodcasts,
                   lastOutcome, besideUpload>>

\* the parsed bodies the backend can answer with, and the object the client
\* makes up when it takes the generation for done
ResponseData == {[status |-> "success", audio |-> TRUE],
                 [status |-> "success", audio |-> FALSE],
                 [status |-> "error", audio |-> TRUE]}
AssumedSuccess == [status |-> "success", audio |-> TRUE]

\* error.message.includes('Unexpected token') ||
\* error.message.includes('not valid JSON')
IsJsonError(message) ==
    Includes(message, <<"Unexpected token">>) \/ Includes(message, <<"not valid JSON">>)

\* an onSuccess that adds an entry for whatever came back
OnSuccessAddsAlways(data) == TRUE
\* onSuccess: !data.audio_file || data.status !== 'success' throws, and the
\* mutation then runs onError with 'Invalid response from server'
OnSuccessAdds(data) == data.audio /\ data.status = "success"

PodcastEntry(placeholder) ==
    [n |-> Len(generatedPodcasts) + 1, placeholder |-> placeholder,
     filename |-> IF placeholder THEN "podcast.mp3" ELSE "audio_file"]

\* onError
OnPodcastError(message) ==
    /\ lastOutcome' = [kind |-> "error", status |-> "", audio |-> FALSE, message |-> message]
    /\ IF IsJsonError(message)
       THEN /\ podcastNotice' = "completedWithIssues"
            /\ generatedPodcasts' = <<PodcastEntry(TRUE)>> \o generatedPodcasts
       ELSE /\ podcastNotice' = "generationFailed"
            /\ UNCHANGED generatedPodcasts

\* the mutation function resolved with data: onSuccess
OnPodcastData(data) ==
    IF OnSuccessAdds(data)
    THEN /\ lastOutcome' = [kind |-> "data", status |-> data.status,
                            audio |-> data.audio, message |-> <<>>]
         /\ generatedPodcasts' = <<PodcastEntry(FALSE)>> \o generatedPodcasts
         /\ podcastNotice' = "podcastGenerated"
    ELSE /\ lastOutcome' = [kind |-> "data", status |-> data.status,
                            audio |-> data.audio, message |-> <<>>]
         /\ podcastNotice' = "generationFailed"
         /\ UNCHANGED generatedPodcasts

MainOutcomes == {"rejects", "not ok", "json", "bad json", "audio stream"}
ApiVariants == {"lib/api.ts", "later"}

\* the request of api.generatePodcast settles.  In lib/api.ts the body is
\* always parsed and there is no generatePodcastWithFallback, so the catch of
\* the mutation function itself throws a TypeError; the later variant checks
\* the content type and has the fallback
MainResponse(variant, outcome, data) ==
    /\ generating.st = "main"
    /\ LET isJson == outcome = "json"
           assumed == variant = "later" /\ outcome = "audio stream"
       IN IF isJson \/ assumed
          THEN /\ generating' = [st |-> "idle", file |-> NoFile]
               /\ OnPodcastData(IF isJson THEN data ELSE AssumedSuccess)
          ELSE IF variant = "later"
          THEN /\ generating' = [generating EXCEPT !.st = "fallback"]
               /\ UNCHANGED <<generatedPodcasts, lastOutcome, podcastNotice>>
          ELSE /\ generating' = [st |-> "idle", file |-> NoFile]
               /\ OnPodcastError(<<"api.generatePodcastWithFallback is not a function">>)
    /\ UNCHANGED <<host, files, error, notified, uploadedFile, nGenerations,
                   besideUpload>>

\* the request of api.generatePodcastWithFallback settles
FallbackResponse(outcome) ==
    /\ generating.st = "fallback"
    /\ generating' = [st |-> "idle", file |-> NoFile]
    /\ CASE outcome = "ok" -> OnPodcastData(AssumedSuccess)
         [] outcome = "not ok" -> OnPodcastError(<<"Generation failed: ", "500">>)
         [] outcome = "rejects" -> OnPodcastError(<<"Failed to fetch">>)
    /\ UNCHANGED <<host, files, error, notified, uploadedFile, nGenerations,
                   besideUpload>>

UploadNext ==
    \/ \E hostPage \in {"podcast", "demo"} : MountUpload(hostPage)
    \/ \E newFiles \in Batches : HandleFiles(newFiles)
    \/ \E index \in 1..MaxFiles : RemoveFile(index)
    \/ PodcastHandleGenerate
    \/ \E variant \in ApiVariants, outcome \in MainOutcomes, data \in ResponseData :
          MainResponse(variant, outcome, data)
    \/ \E outcome \in {"ok", "not ok", "rejects"} : FallbackResponse(outcome)

UploadSpec == Init /\ [][UploadNext]_vars

\* ---- PDFPreview ---------------------------------------------------------------
\* prev + 0.2 without the upper limit
ZoomedInUnclamped(prev) == prev + ZoomStep
\* Math.min(prev + 0.2, 3)
ZoomedIn(prev) == Min(prev + ZoomStep, ZoomMax)
\* Math.max(prev - 0.2, 0.5)
ZoomedOut(prev) == Max(prev - ZoomStep, ZoomMin)

\* the parent passes another file: the effect on [file]
SelectPreviewFile(file) ==
    /\ file # previewFile
    /\ previewFile' = file
    /\ pdfUrl' = (file = "pdf")
    /\ previewError' = IF file = "other" THEN "Selected file is not a PDF" ELSE "null"
    /\ UNCHANGED <<showPreview, zoom, besidePreview>>

\* togglePreview -> onTogglePreview(!showPreview)
TogglePreview ==
    /\ previewFile # "null"
    /\ showPreview' = ~showPreview
    /\ UNCHANGED <<previewFile, pdfUrl, previewError, zoom, besidePreview>>

\* the zoom buttons are rendered while showPreview && pdfUrl
HandleZoomIn ==
    /\ previewFile # "null" /\ showPreview /\ pdfUrl
    /\ zoom' = ZoomedIn(zoom)
    /\ UNCHANGED <<previewFile, pdfUrl, previewError, showPreview, besidePreview>>

HandleZoomOut ==
    /\ previewFile # "null" /\ showPreview /\ pdfUrl
    /\ zoom' = ZoomedOut(zoom)
    /\ UNCHANGED <<previewFile, pdfUrl, previewError, showPreview, besidePreview>>

PreviewNext ==
    \/ \E file \in {"null", "pdf", "other"} : SelectPreviewFile(file)
    \/ TogglePreview
    \/ HandleZoomIn
    \/ HandleZoomOut

PreviewSpec == Init /\ [][PreviewNext]_vars

\* ---- the systematic review page with simulated progress ------------------------
MaxDemoSubmits == 2

\* the topic input changes
SetDemoTopic(value) ==
    /\ value # demoTopic
    /\ demoTopic' = value
    /\ UNCHANGED <<demoReview, demoProgress, demoPending, demoIntervals,
                   demoNotice, nDemoSubmits, besideDemo>>

\* handleGenerate, behind a button that is disabled while the topic is empty
\* or the mutation is pending
DemoHandleGenerate ==
    /\ demoTopic # "" /\ ~demoPending
    /\ nDemoSubmits < MaxDemoSubmits
    /\ demoProgress' = DemoProgressStart
    /\ demoPending' = TRUE
    /\ nDemoSubmits' = nDemoSubmits + 1
    /\ UNCHANGED <<demoTopic, demoReview, demoIntervals, demoNotice, besideDemo>>

\* onSuccess: it starts the interval
DemoOnSuccess ==
    /\ demoPending
    /\ demoPending' = FALSE
    /\ demoIntervals' = demoIntervals + 1
    /\ UNCHANGED <<demoTopic, demoReview, demoProgress, demoNotice,
                   nDemoSubmits, besideDemo>>

\* onError
DemoOnError ==
    /\ demoPending
    /\ demoPending' = FALSE
    /\ demoProgress' = 0
    /\ demoNotice' = "Error"
    /\ UNCHANGED <<demoTopic, demoReview, demoIntervals, nDemoSubmits, besideDemo>>

\* one tick of one interval: the updater passed to setGenerationProgress
DemoTick ==
    /\ demoIntervals > 0
    /\ IF demoProgress >= DemoProgressFull
       THEN /\ demoIntervals' = demoIntervals - 1
            /\ demoReview' = TRUE
            /\ demoNotice' = "Review generated!"
            /\ demoProgress' = 0
       ELSE /\ demoProgress' = demoProgress + DemoProgressStep
            /\ UNCHANGED <<demoIntervals, demoReview, demoNotice>>
    /\ UNCHANGED <<demoTopic, demoPending, nDemoSubmits, besideDemo>>

DemoNext ==
    \/ \E value \in {"", "topic"} : SetDemoTopic(value)
    \/ DemoHandleGenerate
    \/ DemoOnSuccess
    \/ DemoOnError
    \/ DemoTick

DemoSpec == Init /\ [][DemoNext]_vars

\* ---- the Research Assistant chat ------------------------------------------------
MaxQuestions == 4
MaxMounts == 2

\* ChatInterface without the test of isLoading
PassesAlways(isLoading) == TRUE
\* ChatInterface: handleSubmit and handleQuickQuestion call onSendMessage only
\* if (!isLoading)
Passes(isLoading) == ~isLoading

\* handleSendMessage: the user message is appended and the mutation started;
\* the page renders again, with isPending true, before the event ends
AssistantSendMessage ==
    /\ nQuestions < MaxQuestions
    /\ nQuestions' = nQuestions + 1
    /\ assistantMessages' =
           Append(assistantMessages, [sender |-> "user", question |-> nQuestions + 1])
    /\ assistantRequests' =
           assistantRequests \cup {[question |-> nQuestions + 1, mount |-> assistantMount]}
    /\ assistantCurrent' = nQuestions + 1
    /\ assistantPending' = TRUE
    /\ UNCHANGED <<assistantMount, assistantNotice, besideAssistant>>

\* handleSubmit, with text in the input
HandleSubmit ==
    /\ Passes(assistantPending)
    /\ AssistantSendMessage

\* handleQuickQuestion
HandleQuickQuestion ==
    /\ Passes(assistantPending)
    /\ AssistantSendMessage

\* a request ends: the mutation settles; the observer of the page on screen
\* shows it only if it is the mutation the observer follows
Settled(request) ==
    /\ assistantRequests' = assistantRequests \ {request}
    /\ assistantPending' =
           IF request.mount = assistantMount /\ request.question = assistantCurrent
           THEN FALSE ELSE assistantPending

\* onSuccess: setMessages of the mount that sent the question appends the answer
AskOnSuccess(request) ==
    /\ request \in assistantRequests
    /\ Settled(request)
    /\ assistantMessages' =
           IF request.mount = assistantMount
           THEN Append(assistantMessages,
                       [sender |-> "assistant", question |-> request.question])
           ELSE assistantMessages
    /\ UNCHANGED <<assistantCurrent, assistantMount, assistantNotice, nQuestions,
                   besideAssistant>>

\* onError: a notice, no message
AskOnError(request) ==
    /\ request \in assistantRequests
    /\ Settled(request)
    /\ assistantNotice' = "Error"
    /\ UNCHANGED <<assistantMessages, assistantCurrent, assistantMount, nQuestions,
                   besideAssistant>>

\* the user leaves the page and comes back: a new mount with its own state and
\* its own mutation observer; requests of the old mount stay in flight
AssistantRemount ==
    /\ assistantMount < MaxMounts
    /\ assistantMount' = assistantMount + 1
    /\ assistantMessages' = <<>>
    /\ assistantPending' = FALSE
    /\ assistantCurrent' = 0
    /\ UNCHANGED <<assistantRequests, assistantNotice, nQuestions, besideAssistant>>

AssistantNext ==
    \/ HandleSubmit
    \/ HandleQuickQuestion
    \/ \E request \in assistantRequests : AskOnSuccess(request)
    \/ \E request \in assistantRequests : AskOnError(request)
    \/ AssistantRemount

AssistantSpec == Init /\ [][AssistantNext]_vars

\* ------------------------------------------------------------- properties
\* what the page displays of a job
shown == <<rawMarkdown, review, generationProgress, isFullContentLoaded>>

\* task t is resumed in this step (its awaited call returned)
Resumed(t) == t \in tasks /\ t \notin tasks'
\* a new job is accepted in this step
Submitting == nJobs' # nJobs
\* the interval of job j ticks / its 120 s timer fires in this step
Ticking(j) == polls'[j].ticks # polls[j].ticks
TimerFiring(j) == polls[j].timeout /\ ~polls'[j].timeout

\* C1: a response for job A that arrives after job B was submitted is
\* discarded: it changes neither the text shown, the review object, the
\* progress nor the full-content flag
C1_LateResponseDiscarded ==
    [][\A t \in tasks :
         (t.job < nJobs /\ Resumed(t) /\ ~Submitting) => UNCHANGED shown]_vars

\* C2: no poll interval and no timeout timer of an earlier job is scheduled
\* once a new job has been started
C2_NoTimerOfEarlierJob ==
    \A j \in JobIds : j < nJobs => ~polls[j].interval /\ ~polls[j].timeout

\* C3: once the (only) job is Complete or Failed, no later event of that job
\* (a poll response still in flight, an interval tick, the 120 s timer)
\* changes its text, progress, generating flag or full-content flag
C3_TerminalIsFinal ==
    [][\A j \in JobIds :
         ( /\ nJobs = 1 /\ ~Submitting
           /\ jobs[j].phase \in Terminal
           /\ \/ \E t \in tasks : t.job = j /\ t.kind \in {"auto", "poll"} /\ Resumed(t)
              \/ Ticking(j)
              \/ TimerFiring(j) )
         => UNCHANGED <<rawMarkdown, generationProgress, isGenerating,
                        isFullContentLoaded>>]_vars

\* C4: once a job is Complete or Failed no further api.getReview call of its
\* polling is issued
C4_NoPollAfterTerminal ==
    [][\A j \in JobIds :
         jobs[j].phase \in Terminal
         => ~\E t \in tasks' \ tasks : t.job = j /\ t.kind = "poll"]_vars

\* C5: when the 120 s timer of a polling job fires, the timeout failure
\* (notice, generating flag cleared, job Failed) is shown if no fetch has
\* succeeded, and nothing changes if one has (the job is Complete)
C5_TimeoutIffNoSuccess ==
    [][\A j \in JobIds :
         (nJobs = 1 /\ TimerFiring(j))
         => IF jobs[j].phase = "complete"
            THEN UNCHANGED <<toast, isGenerating, generationProgress, jobs>>
            ELSE /\ toast' = "generationTimeout"
                 /\ ~isGenerating'
                 /\ jobs'[j].phase = "failed"]_vars

\* the phase of the current job as displayed: 0 no job, 1 Submitted, 2 a
\* response was received (PreviewShown or Polling), 3 a text is shown as
\* complete
CompleteShown == isFullContentLoaded /\ ~isGenerating /\ rawMarkdown.len > 0
DisplayedRank ==
    IF nJobs = 0 THEN 0
    ELSE IF CompleteShown THEN 3
    ELSE IF reviewId # NoId THEN 2
    ELSE 1

\* the user starts another load by hand (Load Existing Review) in this step
LoadingExisting == \E t \in tasks' \ tasks : t.kind = "test"

\* C6: the displayed phase of a submitted job only moves forward: with one
\* job submitted, no step of the page takes the display back to an earlier
\* phase
C6_PhaseMonotonic ==
    [][(nJobs = 1 /\ ~Submitting /\ ~LoadingExisting)
         => DisplayedRank' >= DisplayedRank]_vars

\* C7: when the follow-up by the job identifier and the fetch by the
\* topic-derived identifier both fail, the text shown is the preview, the state
\* is flagged unverified and Load Full Content is offered
C7_BothFailedUnverified ==
    [][\A t \in tasks, r \in GetResponses :
         ( /\ nJobs = 1
           /\ t.kind = "auto" /\ t.pc = "fallback2"
           /\ ~(r.ok /\ r.len > 0)
           /\ TopicRetryResponse(t, r) )
         => /\ rawMarkdown' = PreviewOf(t.job, t.n)
            /\ ~isFullContentLoaded'
            /\ LoadFullVisible']_vars

\* C8: when the automatic follow-up of a submission with a preview gets
\* content from the fetch by the topic-derived identifier (after the fetch by
\* review_id failed), the text shown becomes that content, fetched by
\* review_<topic in lower case, whitespace runs replaced by '_'>, and
\* isFullContentLoaded is true
C8_FallbackContentShown ==
    [][\A t \in tasks, r \in GetResponses :
         ( /\ t.kind = "auto"
           /\ t.pc \in {"fallback", "fallback2"}
           /\ r.ok /\ r.len > t.n
           /\ FetchResponse(t, r) \/ TopicRetryResponse(t, r) )
         => /\ rawMarkdown'.len = r.len
            /\ rawMarkdown'.src = "fetch"
            /\ t.clTopic = <<"M", "L", " ", " ", "H">>
                 => rawMarkdown'.id.s = <<"review_", "m", "l", "_", "h">>
            /\ isFullContentLoaded']_vars


\* the case of C8 has happened: the fetch by the topic-derived identifier,
\* the only fallback issued, gave the 5000 characters now shown as complete
C8_Witness ==
    /\ nJobs = 1
    /\ jobs[1].phase = "complete" /\ jobs[1].fallbacks = 1
    /\ tasks = {}
    /\ toast = "fullContentLoaded"
    /\ rawMarkdown = ContentOf(TopicBasedId(<<"M", "L", " ", " ", "H">>), 5000)
    /\ review = MakeReview(ReviewIdOf(1), rawMarkdown)
    /\ isFullContentLoaded /\ ~isGenerating

\* C9: for one job the fetch by the topic-derived identifier is issued at most
\* once by the automatic follow-up
C9_AtMostOneFallback ==
    \A j \in JobIds : jobs[j].fallbacks <= 1

\* C10: a fetch of the current job that returns content replaces the text
\* shown if the content is strictly longer, and leaves it unchanged otherwise
C10_ReplaceOnlyIfLonger ==
    [][\A t \in tasks, r \in GetResponses :
         ( /\ t.job = nJobs
           /\ r.ok /\ r.len > 0
           /\ \/ FetchResponse(t, r)
              \/ TopicRetryResponse(t, r)
              \/ LoadFullResponse(t, r) )
         => IF r.len > rawMarkdown.len
            THEN rawMarkdown' = ContentOf(RequestedId(t), r.len)
            ELSE rawMarkdown' = rawMarkdown]_vars

\* the page shows a preview and is loading
LoadingPreview == isGenerating /\ rawMarkdown.src = "preview" /\ rawMarkdown.len > 0
\* the page shows a text and is not loading
ContentShown == ~isGenerating /\ rawMarkdown.len > 0

\* C11: the page never stays on a loading preview: provided every request
\* issued settles, a state that shows a received preview while loading leads
\* to a state that shows a non-empty text with the generating flag cleared
C11_NeverStranded == LoadingPreview ~> ContentShown

\* the follow-up and both fetches by the topic-derived identifier failed and
\* the page came to rest on the preview
C11_Witness ==
    /\ nJobs = 1 /\ tasks = {}
    /\ jobs[1].phase = "complete" /\ jobs[1].fallbacks = 2
    /\ toast = "reviewReadyPreview"
    /\ rawMarkdown = PreviewOf(1, 400)
    /\ ContentShown

\* the response r to the call task t awaits is handled in this step
Handling(t, r) == FetchResponse(t, r) \/ TopicRetryResponse(t, r)
\* the notices with variant "destructive"
FailureNotices ==
    {"generationFailed", "generationTimeout", "fetchError", "loadFailed",
     "loadExistingFailed"}

\* C12: while the (only) job polls, a poll whose fetch fails is swallowed: it
\* shows no notice, leaves the generating flag and the progress as they are and
\* leaves the interval scheduled
C12_PollFailureSwallowed ==
    [][\A t \in tasks, r \in GetResponses :
         ( /\ nJobs = 1 /\ t.kind = "poll"
           /\ jobs[t.job].phase = "polling"
           /\ ~(r.ok /\ r.len > 0)
           /\ t \notin tasks'
           /\ FetchResponse(t, r) )
         => /\ UNCHANGED <<toast, isGenerating, generationProgress>>
            /\ polls'[t.job].interval = polls[t.job].interval]_vars

\* C13: in the preview path of the (only) job no step of the automatic
\* follow-up shows a failure notice, and when the fetch by the job identifier
\* and the fetches by the topic-derived identifier have all failed the job is
\* Complete with the preview as its text
C13_PreviewFailuresRecovered ==
    [][\A t \in tasks, r \in GetResponses :
         ( /\ nJobs = 1 /\ t.kind = "auto"
           /\ Handling(t, r) )
         => /\ toast' \notin FailureNotices
            /\ (t.pc = "fallback2" /\ ~(r.ok /\ r.len > 0))
                 => /\ jobs'[t.job].phase = "complete"
                    /\ rawMarkdown' = PreviewOf(t.job, t.n)]_vars

\* C14: while the (only) job polls, no interval tick and no step of a poll
\* lowers generationProgress
C14_ProgressMonotonicWhilePolling ==
    [][\A j \in JobIds :
         ( /\ nJobs = 1 /\ jobs[j].phase = "polling" /\ jobs'[j].phase = "polling"
           /\ \/ Ticking(j)
              \/ \E t \in tasks : t.job = j /\ t.kind = "poll" /\ t \notin tasks' )
         => generationProgress' >= generationProgress]_vars

\* C15: whenever the progress shown is 100, the current job has ended with
\* its content accepted
C15_FullProgressOnlyWhenDone ==
    generationProgress = ProgressDone
      => nJobs >= 1 /\ jobs[nJobs].phase \in Terminal

\* an interval or timer of the page is scheduled
TimersPending == \E j \in JobIds : polls[j].interval \/ polls[j].timeout

\* C16: when the page is unmounted its interval and timer are cancelled, and
\* no interval or timer callback of the page runs after the unmount
C16_TimersCancelledOnUnmount ==
    [][/\ (mounted /\ ~mounted') => ~TimersPending'
       /\ ~mounted => \A j \in JobIds : ~Ticking(j) /\ ~TimerFiring(j)]_vars
\* ---- the system status indicator
\* the outcome probe p met in the call that has just returned
OutcomeOf(p) == (CHOOSE e \in {probed[i] : i \in DOMAIN probed} : e[1] = p)[2]
Returned == promise = "fulfilled" /\ step = "idle"

\* C17: when a connectivity check returns, isHealthy is the OR of its three
\* probes: false if no probe found its service healthy, true if at least one
\* did
C17_HealthIsOrOfProbes ==
    Returned =>
        /\ Len(probed) = 3
        /\ systemHealth.isHealthy
             <=> (\/ OutcomeOf("main") = "healthy"
                  \/ OutcomeOf("cag") = "healthy"
                  \/ OutcomeOf("insights") = "available")

\* C17 witness: a check returned healthy although the first two probes failed
C17_Witness ==
    /\ Returned
    /\ probed = <<<<"main", "rejects">>, <<"cag", "degraded">>,
                  <<"insights", "available">>>>
    /\ systemHealth.isHealthy

\* C18: a connectivity check never rejects; when it returns, all three probes
\* were issued in order, a probe that failed is recorded false for its own
\* service, and the probes after a failed one are recorded as they reported
C18_ProbeFailuresContained ==
    /\ promise # "rejected"
    /\ Returned =>
          /\ [i \in DOMAIN probed |-> probed[i][1]] = Probes
          /\ \A p \in Services :
                /\ OutcomeOf(p) \in {"rejects", "null"} => ~systemHealth.services[p]
                /\ OutcomeOf(p) \in {"healthy", "available"} => systemHealth.services[p]
                /\ OutcomeOf(p) \in {"degraded", "unavailable"} => ~systemHealth.services[p]

\* C18 witness: the first probe rejected, the second threw inside its try, and
\* the third was still issued and recorded
C18_Witness ==
    /\ Returned
    /\ probed = <<<<"main", "rejects">>, <<"cag", "null">>,
                  <<"insights", "available">>>>
    /\ systemHealth.services = [main |-> FALSE, cag |-> FALSE, insights |-> TRUE]
    /\ nChecks = 2


\* ---- the document chat page
\* a Reset Session or Clear Conversation success handler runs
ResetApplied ==
    \/ resetReq.st = "served" /\ resetReq.ok /\ ResetResponse
    \/ clearReq.st = "served" /\ clearReq.ok /\ ClearResponse

\* C19: between resets the chat list is append-only: every step other than a
\* successful reset or clear leaves the shown messages as a prefix of the list
\* it produces
C19_AppendOnlyBetweenResets ==
    [][~ResetApplied => IsPrefix(messages, messages')]_vars

\* C20: after a successful Reset Session or Clear Conversation no message
\* that was shown before it is shown again, whatever the order in which the
\* stats and answer responses in flight arrive
C20_NoMessageReappears == Range(messages) \cap cleared = {}


\* ---- the research stream
\* the parsed values of the events of a sequence whose data are valid JSON
RECURSIVE ValidParsed(_)
ValidParsed(ds) ==
    IF ds = <<>> THEN <<>>
    ELSE LET d == ds[Len(ds)]
             before == ValidParsed(SubSeq(ds, 1, Len(ds) - 1))
         IN IF JsonParse(d).ok THEN Append(before, JsonParse(d)) ELSE before

\* C21: onMessage has been called exactly once, in arrival order, for each
\* event whose data is valid JSON and for no other event, and the stream is
\* never closed because a message failed to parse
C21_StreamDeliversValidEvents ==
    /\ delivered = ValidParsed(arrived)
    /\ closedBy # "parse failure"
    /\ (\E i \in DOMAIN arrived : ~JsonParse(arrived[i]).ok) /\ closedBy = "nothing"
          => readyState = "open"

\* C21 witness: a message that does not parse was skipped, the next one was
\* delivered, and the stream is still open
C21_Witness ==
    /\ arrived = <<<<"{">>, <<"1", "1">>>>
    /\ delivered = <<[ok |-> TRUE, type |-> "number", n |-> 11]>>
    /\ readyState = "open"

\* ---- the api client
\* C22: every wrapper call that met a non-2xx status raised an error that
\* carries the status and the raw response text, and every other call
\* returned the parsed JSON body
C22_ErrorsCarryStatusAndText ==
    \A i \in DOMAIN calls :
        LET c == calls[i] IN
        IF ~Ok(c.status)
        THEN /\ c.outcome.kind = "raised"
             /\ c.outcome.status = c.status
             /\ c.outcome.text = c.body
        ELSE JsonParse(c.body).ok => c.outcome = Returns(JsonParse(c.body))

C24_ParseReferencesPure ==
    \A i, j \in DOMAIN parsed :
        parsed[i].text = parsed[j].text => parsed[i].references = parsed[j].references

\* ---- FileUpload and the podcast page
\* a file within the size limit and of the accepted type
Acceptable(file) ==
    /\ file.size <= 10485760
    /\ file.type = <<"application/", "pdf">>

\* C25: every selected file is at most maxSize MB large, and a generation
\* request in flight never carries a file above 10 MB
C25_NoOversizedFile ==
    /\ \A i \in DOMAIN files : files[i].size <= 10485760
    /\ generating.st # "idle" => generating.file.size <= 10485760

\* C25 witness: an oversized file was refused while a file of exactly the
\* limit stays selected and is being submitted
C25_Witness ==
    /\ host = "podcast"
    /\ files = <<[size |-> 10485760, type |-> <<"application/", "pdf">>, name |-> "file"]>>
    /\ error = "File size must be less than"
    /\ generating.st = "main"
    /\ generating.file = files[1]

\* C29: a batch with a file that fails validation changes nothing but the
\* error message and does not call onFilesChange; an accepted batch clears
\* the error, replaces the list when multiple is false and is appended to it
\* when multiple is true
C29_BatchAllOrNothing ==
    [][\A newFiles \in Batches :
          HandleFiles(newFiles) =>
             IF \E i \in DOMAIN newFiles : ~Acceptable(newFiles[i])
             THEN /\ files' = files
                  /\ notified' = notified
                  /\ error' # "null"
             ELSE /\ error' = "null"
                  /\ notified' # notified
                  /\ host = "podcast" => files' = newFiles
                  /\ host = "demo" => files' = files \o newFiles]_vars

\* C29 witness: with multiple, two files are selected and a later batch with
\* a file of the wrong type was refused whole
C29_Witness ==
    /\ host = "demo"
    /\ Len(files) = 2
    /\ files[1].size # files[2].size
    /\ error = "File type not supported"

\* C30: the list of generated podcasts changes only by one entry prepended
\* to it, and only when the generation returned status success with an audio
\* file (a regular entry) or failed with a JSON parse error (a placeholder)
C30_PodcastAddedOnlyOnSuccess ==
    [][generatedPodcasts' # generatedPodcasts =>
          /\ Len(generatedPodcasts') = Len(generatedPodcasts) + 1
          /\ Tail(generatedPodcasts') = generatedPodcasts
          /\ \/ /\ lastOutcome'.kind = "data"
                /\ lastOutcome'.status = "success"
                /\ lastOutcome'.audio
                /\ ~Head(generatedPodcasts').placeholder
             \/ /\ lastOutcome'.kind = "error"
                /\ \E i \in DOMAIN lastOutcome'.message :
                      lastOutcome'.message[i] \in {"Unexpected token", "not valid JSON"}
                /\ Head(generatedPodcasts').placeholder]_vars

\* C30 witness: after one podcast was added, a generation that answered
\* without an audio file, and one that failed, left the list as it was
C30_Witness ==
    /\ Len(generatedPodcasts) = 1
    /\ nGenerations = 2
    /\ generating.st = "idle"
    /\ lastOutcome.kind = "data"
    /\ ~lastOutcome.audio

\* ---- PDFPreview
\* C26: after any sequence of zoom-in and zoom-out actions the zoom level is
\* at least 50% and at most 300%
C26_ZoomWithinLimits == zoom >= 50 /\ zoom <= 300

\* C26 witness: the zoom went down to the lower limit, where the step was cut
\* short, and came up from it to a level no unclamped steps from 100% reach
C26_Witness == zoom = 70 /\ showPreview /\ pdfUrl

\* ---- the systematic review page with simulated progress
\* C27: generationProgress is within 0..100 in every reachable state of every
\* variant of the systematic review page, the one with simulated progress
\* included
C27_ProgressWithinBounds ==
    /\ generationProgress >= 0 /\ generationProgress <= 100
    /\ demoProgress >= 0 /\ demoProgress <= 100

\* ---- the Research Assistant chat
\* the questions of the page on screen that are in flight
InFlight == {request \in assistantRequests : request.mount = assistantMount}

MessagesOf(sender) ==
    {i \in 1..Len(assistantMessages) : assistantMessages[i].sender = sender}

====
